---- MODULE Spec2Model ----
(***************************************************************************)
(* Model of bot.py: the scheduler coroutine (Yande and Pixiv crawlers,     *)
(* process_image, save_to_d1, the cloud history of sent ids) and the       *)
(* manual forward handler that runs beside it on the same event loop.      *)
(*                                                                         *)
(* Strings are sequences of one-character strings, so that ",".join,       *)
(* str.split(','), f"pixiv_{pid}" and sorted(key=int) are computed, not    *)
(* assumed.  Every network call is an input: its outcome (status 200,      *)
(* another status, a raised exception) is chosen with \E.                  *)
(***************************************************************************)
EXTENDS Integers, Sequences, FiniteSets, TLC

\* ---------------------------------------------------------------- bounds
NumPixivIds == 2       \* illust ids the Pixiv profile endpoint may list
NumYandeIds == 1       \* post ids the Yande endpoint may list
NumFileIds == 2        \* file ids Telegram may hand back for a sent photo
NumManualMsgs == 1     \* message ids of inbound photo messages
NumArtists == 1        \* uids listed in PIXIV_ARTIST_IDS

\* ------------------------------------------------------ program constants
YANDE_LIMIT == 1       \* bot.py:47, default of YANDE_LIMIT
PIXIV_LIMIT == 3       \* bot.py:54, default of PIXIV_LIMIT

\* ------------------------------------------------------------- strings
Digits == <<"0", "1", "2", "3", "4", "5", "6", "7", "8", "9">>

RECURSIVE Str(_)
\* str(n) for n >= 0
Str(n) == IF n < 10 THEN <<Digits[n + 1]>>
          ELSE Str(n \div 10) \o <<Digits[(n % 10) + 1]>>

DigitVal(c) == (CHOOSE d \in 1..10 : Digits[d] = c) - 1

RECURSIVE IntVal(_)
\* int(s) for a string of decimal digits
IntVal(s) == IF Len(s) = 0 THEN 0
             ELSE 10 * IntVal(SubSeq(s, 1, Len(s) - 1)) + DigitVal(s[Len(s)])

RECURSIVE Split(_)
\* text.split(','): "" gives [""], "a," gives ["a", ""]
Split(t) == IF t = <<>> THEN << <<>> >>
            ELSE LET rest == Split(Tail(t))
                 IN  IF Head(t) = "," THEN << <<>> >> \o rest
                     ELSE << <<Head(t)>> \o Head(rest) >> \o Tail(rest)

RECURSIVE Join(_)
\* ",".join(list)
Join(l) == IF Len(l) = 0 THEN <<>>
           ELSE IF Len(l) = 1 THEN l[1]
           ELSE l[1] \o <<",">> \o Join(Tail(l))

ToSet(l) == {l[i] : i \in DOMAIN l}

\* the orders in which a Python set may be iterated
Orders(S) == {f \in [1..Cardinality(S) -> S] : \A i, j \in DOMAIN f : i # j => f[i] # f[j]}

\* sorted(keys, key=int, reverse=True)[:limit]
SortedLatest(K, limit) ==
    LET s == CHOOSE f \in Orders(K) :
                 \A i, j \in DOMAIN f : i < j => IntVal(f[i]) > IntVal(f[j])
    IN  SubSeq(s, 1, IF Len(s) < limit THEN Len(s) ELSE limit)

YandePostId(n) == <<"y", "a", "n", "d", "e", "_">> \o Str(n)
PixivPostId(pid) == <<"p", "i", "x", "i", "v", "_">> \o pid
ManualPostId(n) == <<"m", "a", "n", "u", "a", "l", "_">> \o Str(n)

\* ------------------------------------------------------------- inputs
PixivIds == {Str(n) : n \in (11 - NumPixivIds)..10}
YandeIds == 1..NumYandeIds
FileIds == 1..NumFileIds
ManualMsgIds == 1..NumManualMsgs
\* what the history endpoint may hold before this deployment first writes it
InitialHistory == {<<>>, Str(10)}
HttpOutcome == {"200", "other", "exception"}

NoAsset == [source |-> "none", post_id |-> <<>>, pid |-> <<>>, file_id |-> 0,
            sendOk |-> FALSE, d1Tried |-> FALSE, d1Ok |-> FALSE, confirmed |-> FALSE]

VARIABLES
    WORKER_URL,        \* TRUE iff the WORKER_URL variable is set
    pixivConfigured,   \* TRUE iff PIXIV_PHPSESSID and PIXIV_ARTIST_IDS are set
    sent_illust_ids,   \* the in-memory set of sent ids
    history,           \* the text the Worker's history endpoint holds
    d1,                \* rows of the images table: [id, file_name]
    pc,                \* where the scheduler coroutine stands
    posts,             \* Yande posts of this round still to visit
    uidsLeft,          \* artists of this round still to visit
    ids,               \* illust ids of the current artist still to visit
    cur,               \* the asset inside process_image, with what happened to it
    has_new_images,    \* the local flag of fetch_pixiv_by_cookie
    mpc,               \* where the manual forward handler stands
    mcur,              \* the message the manual handler is working on
    delivered,         \* post ids the scheduler sent to the channel in this process
    resent,            \* post ids the scheduler sent to the channel again in this process
    added,             \* sent_illust_ids grew in the current round
    pushed,            \* push_history_to_cloud was called in the current round
    loaded,            \* at "synced": how the startup sync's request ended
    flushed,           \* the set whose upload the Worker last accepted, in a one-element sequence
    loads,             \* calls of sync_history_from_cloud in this process
    objects            \* keys put into an object store: no statement of bot.py writes one

vars == <<WORKER_URL, pixivConfigured, sent_illust_ids, history, d1, pc, posts, uidsLeft,
          ids, cur, has_new_images, mpc, mcur, delivered, resent, added, pushed, loaded, flushed,
          loads, objects>>

config == <<WORKER_URL, pixivConfigured, objects>>
manual == <<mpc, mcur>>
ghost == <<delivered, resent, added, pushed, loaded, flushed, loads>>

Init ==
    /\ WORKER_URL \in BOOLEAN
    /\ pixivConfigured \in BOOLEAN
    /\ sent_illust_ids = {}
    /\ history \in InitialHistory
    /\ d1 = {}
    /\ pc = "start"
    /\ posts = <<>>
    /\ uidsLeft = 0
    /\ ids = <<>>
    /\ cur = NoAsset
    /\ has_new_images = FALSE
    /\ mpc = "idle"
    /\ mcur = NoAsset
    /\ delivered = {}
    /\ resent = {}
    /\ added = FALSE
    /\ pushed = FALSE
    /\ loaded = "none"
    /\ flushed = <<>>
    /\ loads = 0
    /\ objects = {}

\* ------------------------------------------------- cloud history (69-98)
\* the Worker's /api/update_history: an accepted upload replaces the stored text
WorkerUpdateHistory(stored, data) == data

\* the Worker's /api/get_history: the body of a 200 answer is the stored text
WorkerGetHistory(stored) == stored

\* mutant: the body is taken as one id, the split forgotten
SyncedIdsNoSplit(local, configured, outcome, text) ==
    IF configured /\ outcome = "200" /\ text # <<>>
    THEN {text}
    ELSE local

\* mutant: the body is parsed whatever the status
SyncedIdsAnyStatus(local, configured, outcome, text) ==
    IF configured /\ outcome # "exception" /\ text # <<>>
    THEN ToSet(Split(text))
    ELSE local

\* sync_history_from_cloud: the set after the call, given the request's outcome
SyncedIds(local, configured, outcome, text) ==
    IF configured /\ outcome = "200" /\ text # <<>>
    THEN ToSet(Split(text))
    ELSE local

\* scheduler(), line 276: the one sync at startup
SyncHistory ==
    /\ pc = "start"
    /\ \E outcome \in HttpOutcome :
        /\ sent_illust_ids' = SyncedIds(sent_illust_ids, WORKER_URL, outcome,
                                        WorkerGetHistory(history))
        /\ loaded' = IF WORKER_URL THEN outcome ELSE "unset"
    /\ loads' = loads + 1
    /\ pc' = "synced"
    /\ UNCHANGED <<config, history, d1, posts, uidsLeft, ids, cur, has_new_images, manual,
                   delivered, resent, added, pushed, flushed>>

\* scheduler(), line 278: entering the loop body
EnterLoop ==
    /\ pc = "synced"
    /\ pc' = "yande"
    /\ loaded' = "none"
    /\ UNCHANGED <<config, sent_illust_ids, history, d1, posts, uidsLeft, ids, cur,
                   has_new_images, manual, delivered, resent, added, pushed, flushed, loads>>

\* push_history_to_cloud: what the Worker holds after the call
PushedHistory(old, configured, outcome, data) ==
    IF configured /\ outcome = "200" THEN WorkerUpdateHistory(old, data) ELSE old

\* fetch_pixiv_by_cookie, lines 253-254, with the whole of push_history_to_cloud
PushHistory ==
    /\ pc = "push"
    /\ \E outcome \in HttpOutcome, order \in Orders(sent_illust_ids) :
        /\ history' = PushedHistory(history, WORKER_URL, outcome, Join(order))
        /\ flushed' = IF WORKER_URL /\ outcome = "200" THEN <<sent_illust_ids>> ELSE flushed
    /\ pushed' = TRUE
    /\ has_new_images' = FALSE
    /\ pc' = "sleep"
    /\ UNCHANGED <<config, sent_illust_ids, d1, posts, uidsLeft, ids, cur, manual,
                   delivered, resent, added, loaded, loads>>

\* ------------------------------------------------ process_image (120-137)
\* mutant: the except branch is lost and save_to_d1 runs after a failed send
AfterSendAlwaysSave(ok) == "save"

\* mutant: the D1 write is skipped
AfterSendSkipsSave(ok) == "after"

\* where process_image goes after bot.send_photo returned or raised
AfterSend(ok) == IF ok THEN "save" ELSE "after"

\* lines 124-130: send the photo to the channel and take its file id
ProcSend ==
    /\ pc = "send"
    /\ \E ok \in BOOLEAN, fid \in FileIds :
        /\ cur' = [cur EXCEPT !.sendOk = ok, !.file_id = IF ok THEN fid ELSE 0]
        /\ delivered' = IF ok THEN delivered \cup {cur.post_id} ELSE delivered
        /\ resent' = IF ok /\ cur.post_id \in delivered
                     THEN resent \cup {cur.post_id}
                     ELSE resent
        /\ pc' = AfterSend(ok)
    /\ UNCHANGED <<config, sent_illust_ids, history, d1, posts, uidsLeft, ids,
                   has_new_images, manual, added, pushed, loaded, flushed, loads>>

\* mutant: a plain INSERT
InsertPlain(table, row) == table \cup {row}

\* the images table: two rows conflict when they have the same id
Conflict(r, row) == r.id = row.id

\* INSERT OR IGNORE INTO images (id, file_name, ...), line 109
InsertOrIgnore(table, row) ==
    IF \E r \in table : Conflict(r, row) THEN table ELSE table \cup {row}

\* the D1 side of one request: whether the statement was executed. D1 answers
\* 200 when it executed the statement and another status when it did not; a
\* request that raised may have been executed before its answer was lost
D1Applied(outcome) ==
    CASE outcome = "200" -> {TRUE}
      [] outcome = "other" -> {FALSE}
      [] outcome = "exception" -> BOOLEAN

\* save_to_d1, lines 109-114: the statement and the parameters it sends; the
\* table after the call, given whether D1 executed the statement
SavedD1(table, applied, post_id, file_id) ==
    IF applied
    THEN InsertOrIgnore(table, [id |-> post_id, file_name |-> file_id])
    ELSE table

\* lines 115-118 with 134 and 154: save_to_d1 logs a refused write and returns,
\* so the caller's next statement, the success message, runs unless the
\* request raised
Confirms(outcome) == outcome # "exception"

\* lines 133-137: save_to_d1 inside process_image's try, and the log of line 134
ProcSave ==
    /\ pc = "save"
    /\ \E outcome \in HttpOutcome :
        /\ \E applied \in D1Applied(outcome) :
            d1' = SavedD1(d1, applied, cur.post_id, cur.file_id)
        /\ cur' = [cur EXCEPT !.d1Tried = TRUE, !.d1Ok = (outcome = "200"),
                              !.confirmed = Confirms(outcome)]
    /\ pc' = "after"
    /\ UNCHANGED <<config, sent_illust_ids, history, posts, uidsLeft, ids, has_new_images,
                   manual, ghost>>

\* ---------------------------------------------------- fetch_yande (163-189)
\* mutant: the exception leaves fetch_yande and ends scheduler()
YandeRaisedEscapes == "crashed"

\* mutant: the exception is caught around the whole round, which ends there
YandeRaisedEndsRound == "sleep"

\* lines 188-189: an exception anywhere in fetch_yande is logged, the function
\* returns and scheduler() goes on to fetch_pixiv
YandeRaised == "pixiv"

\* lines 164-170: the listing request
FetchYande ==
    /\ pc = "yande"
    /\ \E outcome \in HttpOutcome :
        IF outcome = "200"
        THEN \E K \in SUBSET YandeIds :
                /\ Cardinality(K) <= YANDE_LIMIT
                /\ \E order \in Orders(K) : posts' = order
                /\ pc' = "yande_loop"
        ELSE /\ posts' = <<>>
             /\ pc' = IF outcome = "exception" THEN YandeRaised ELSE "pixiv"
    /\ UNCHANGED <<config, sent_illust_ids, history, d1, uidsLeft, ids, cur, has_new_images,
                   manual, ghost>>

\* lines 172-185: one post of the listing, up to the call of process_image
YandeItem ==
    /\ pc = "yande_loop"
    /\ posts # <<>>
    /\ \E step \in {"no_url", "200", "other", "exception"} :
        CASE step = "no_url" ->
                /\ posts' = Tail(posts)
                /\ UNCHANGED <<pc, cur>>
          [] step = "other" ->
                /\ posts' = Tail(posts)
                /\ UNCHANGED <<pc, cur>>
          [] step = "exception" ->
                /\ posts' = <<>>
                /\ pc' = YandeRaised
                /\ UNCHANGED cur
          [] step = "200" ->
                /\ cur' = [NoAsset EXCEPT !.source = "yande",
                                          !.post_id = YandePostId(Head(posts)),
                                          !.pid = YandePostId(Head(posts))]
                /\ pc' = "send"
                /\ UNCHANGED posts
    /\ UNCHANGED <<config, sent_illust_ids, history, d1, uidsLeft, ids, has_new_images,
                   manual, ghost>>

\* lines 185-187: process_image returned; nothing is recorded for a Yande post
YandeAfter ==
    /\ pc = "after"
    /\ cur.source = "yande"
    /\ posts' = Tail(posts)
    /\ cur' = NoAsset
    /\ pc' = "yande_loop"
    /\ UNCHANGED <<config, sent_illust_ids, history, d1, uidsLeft, ids, has_new_images,
                   manual, ghost>>

\* line 172: the listing is exhausted
YandeDone ==
    /\ pc = "yande_loop"
    /\ posts = <<>>
    /\ pc' = "pixiv"
    /\ UNCHANGED <<config, sent_illust_ids, history, d1, posts, uidsLeft, ids, cur,
                   has_new_images, manual, ghost>>

\* ------------------------------------------ fetch_pixiv (194-269)
\* lines 256-269 and 196-206: fetch_pixiv and the start of fetch_pixiv_by_cookie
FetchPixiv ==
    /\ pc = "pixiv"
    /\ IF pixivConfigured
       THEN /\ has_new_images' = FALSE
            /\ uidsLeft' = NumArtists
            /\ pc' = "artist"
       ELSE /\ pc' = "sleep"
            /\ UNCHANGED <<has_new_images, uidsLeft>>
    /\ UNCHANGED <<config, sent_illust_ids, history, d1, posts, ids, cur, manual, ghost>>

\* lines 249-250: an exception while working on one artist is logged and the
\* loop goes on to the next uid
ArtistRaised == "artist"

\* lines 207-217: the works of one artist
ListArtist ==
    /\ pc = "artist"
    /\ uidsLeft > 0
    /\ \E step \in {"ok", "error", "exception"} :
        IF step = "ok"
        THEN \E K \in SUBSET PixivIds :
                /\ ids' = SortedLatest(K, PIXIV_LIMIT)
                /\ pc' = "pixiv_loop"
                /\ UNCHANGED uidsLeft
        ELSE /\ uidsLeft' = uidsLeft - 1
             /\ pc' = IF step = "exception" THEN ArtistRaised ELSE "artist"
             /\ UNCHANGED ids
    /\ UNCHANGED <<config, sent_illust_ids, history, d1, posts, cur, has_new_images, manual,
                   ghost>>

\* mutant: the membership test is lost
AlreadySentNever(pid, sent) == FALSE

\* mutant: the test looks for the post id "pixiv_<id>"
AlreadySentByPostId(pid, sent) == PixivPostId(pid) \in sent

\* line 222: the test that skips an illust
AlreadySent(pid, sent) == pid \in sent

\* lines 220-242: one illust id, up to the call of process_image
PixivItem ==
    /\ pc = "pixiv_loop"
    /\ ids # <<>>
    /\ IF AlreadySent(Head(ids), sent_illust_ids)
       THEN /\ ids' = Tail(ids)
            /\ UNCHANGED <<pc, cur, uidsLeft>>
       ELSE \E step \in {"200", "other", "exception"} :
            CASE step = "other" ->
                    /\ ids' = Tail(ids)
                    /\ UNCHANGED <<pc, cur, uidsLeft>>
              [] step = "exception" ->
                    /\ ids' = <<>>
                    /\ uidsLeft' = uidsLeft - 1
                    /\ pc' = ArtistRaised
                    /\ UNCHANGED cur
              [] step = "200" ->
                    /\ cur' = [NoAsset EXCEPT !.source = "pixiv",
                                              !.post_id = PixivPostId(Head(ids)),
                                              !.pid = Head(ids)]
                    /\ pc' = "send"
                    /\ UNCHANGED <<ids, uidsLeft>>
    /\ UNCHANGED <<config, sent_illust_ids, history, d1, posts, has_new_images, manual,
                   ghost>>

\* mutant: the id is not recorded
MarkSentNothing(sent, pid) == sent

\* mutant: the set is rebuilt from the one id
MarkSentOnly(sent, pid) == {pid}

\* line 245: sent_illust_ids.add(str(pid))
MarkSent(sent, pid) == sent \cup {pid}

\* lines 244-248: process_image returned; the id is recorded and the flag raised
PixivMark ==
    /\ pc = "after"
    /\ cur.source = "pixiv"
    /\ sent_illust_ids' = MarkSent(sent_illust_ids, cur.pid)
    /\ has_new_images' = TRUE
    /\ added' = (added \/ sent_illust_ids' # sent_illust_ids)
    /\ ids' = Tail(ids)
    /\ cur' = NoAsset
    /\ pc' = "pixiv_loop"
    /\ UNCHANGED <<config, history, d1, posts, uidsLeft, manual, delivered, resent, pushed,
                   loaded, flushed, loads>>

\* line 220: the ids of this artist are exhausted
ArtistDone ==
    /\ pc = "pixiv_loop"
    /\ ids = <<>>
    /\ uidsLeft' = uidsLeft - 1
    /\ pc' = "artist"
    /\ UNCHANGED <<config, sent_illust_ids, history, d1, posts, ids, cur, has_new_images,
                   manual, ghost>>

\* mutant: the history is uploaded every round
ShouldPushAlways(flag) == TRUE

\* line 253: whether this round uploads the history
ShouldPush(flag) == flag

\* lines 252-254: after the last artist
PixivFinish ==
    /\ pc = "artist"
    /\ uidsLeft = 0
    /\ pc' = IF ShouldPush(has_new_images) THEN "push" ELSE "sleep"
    /\ has_new_images' = (has_new_images /\ ShouldPush(has_new_images))
    /\ UNCHANGED <<config, sent_illust_ids, history, d1, posts, uidsLeft, ids, cur, manual,
                   ghost>>

\* ------------------------------------------------- scheduler (274-282)
\* mutant: the loop starts above the sync
AfterSleepResync == "start"

\* line 278: after the sleep the loop body starts again at fetch_yande
AfterSleep == "yande"

\* lines 281-282 and the next iteration of while True
Sleep ==
    /\ pc = "sleep"
    /\ pc' = AfterSleep
    /\ added' = FALSE
    /\ pushed' = FALSE
    /\ UNCHANGED <<config, sent_illust_ids, history, d1, posts, uidsLeft, ids, cur,
                   has_new_images, manual, delivered, resent, loaded, flushed, loads>>

\* --------------------------------------- handle_manual_forward (142-158)
\* where the handler goes after bot.send_photo returned or raised
ManualAfterSend(ok) == IF ok THEN "save" ELSE "reply"

\* mutant: the handler records the post id it delivered
ManualMarkedAdds(sent, post_id) == sent \cup {post_id}

\* lines 143-158: no statement of the handler touches sent_illust_ids
ManualMarked(sent, post_id) == sent

\* lines 145-151, and 156-157 when the send raises
ManualSend ==
    /\ mpc = "idle"
    /\ \E m \in ManualMsgIds, ok \in BOOLEAN, fid \in FileIds :
        /\ mpc' = ManualAfterSend(ok)
        /\ mcur' = [NoAsset EXCEPT !.source = "manual", !.post_id = ManualPostId(m),
                                   !.sendOk = ok, !.file_id = IF ok THEN fid ELSE 0]
    /\ UNCHANGED <<config, sent_illust_ids, history, d1, pc, posts, uidsLeft, ids, cur,
                   has_new_images, ghost>>

\* lines 153 and 156-157: save_to_d1; the handler goes on to the success reply
\* of line 154, or, when the request raised, to the failure reply of line 158
ManualSave ==
    /\ mpc = "save"
    /\ \E outcome \in HttpOutcome :
        /\ \E applied \in D1Applied(outcome) :
            d1' = SavedD1(d1, applied, mcur.post_id, mcur.file_id)
        /\ mcur' = [mcur EXCEPT !.file_id = 0, !.d1Tried = TRUE, !.d1Ok = (outcome = "200"),
                                !.confirmed = Confirms(outcome)]
    /\ sent_illust_ids' = ManualMarked(sent_illust_ids, mcur.post_id)
    /\ mpc' = "reply"
    /\ UNCHANGED <<config, history, pc, posts, uidsLeft, ids, cur, has_new_images, ghost>>

\* lines 154-158: where the handler goes after message.reply returned or
\* raised. The success reply of line 154 is inside the try: when it raises,
\* the except of 156 logs and awaits the failure reply of 158. The failure
\* reply is outside any try: returned or raised, the handler is left
ManualAfterReply(success, ok) == IF success /\ ~ok THEN "reply" ELSE "idle"

\* lines 154 and 158: one awaited message.reply; mcur.confirmed tells which
\* text is being sent, the success text (154) or the failure text (158)
ManualReply ==
    /\ mpc = "reply"
    /\ \E ok \in BOOLEAN :
        /\ mpc' = ManualAfterReply(mcur.confirmed, ok)
        /\ mcur' = IF mpc' = "reply" THEN [mcur EXCEPT !.confirmed = FALSE] ELSE NoAsset
    /\ UNCHANGED <<config, sent_illust_ids, history, d1, pc, posts, uidsLeft, ids, cur,
                   has_new_images, ghost>>

\* ------------------------------------------------------------ the process
\* the process is killed, at any point, and started again: module state is
\* rebuilt (line 69) and a handler in flight is gone; the Worker's history and
\* the D1 table live on
Restart ==
    /\ sent_illust_ids' = {}
    /\ pc' = "start"
    /\ posts' = <<>>
    /\ uidsLeft' = 0
    /\ ids' = <<>>
    /\ cur' = NoAsset
    /\ has_new_images' = FALSE
    /\ mpc' = "idle"
    /\ mcur' = NoAsset
    /\ delivered' = {}
    /\ resent' = {}
    /\ added' = FALSE
    /\ pushed' = FALSE
    /\ loaded' = "none"
    /\ loads' = 0
    /\ UNCHANGED <<config, history, d1, flushed>>

Next ==
    \/ SyncHistory
    \/ EnterLoop
    \/ FetchYande
    \/ YandeItem
    \/ YandeAfter
    \/ YandeDone
    \/ FetchPixiv
    \/ ListArtist
    \/ PixivItem
    \/ PixivMark
    \/ ArtistDone
    \/ PixivFinish
    \/ PushHistory
    \/ ProcSend
    \/ ProcSave
    \/ Sleep
    \/ ManualSend
    \/ ManualSave
    \/ ManualReply
    \/ Restart

Spec == Init /\ [][Next]_vars

\* the steps of the scheduler coroutine
Scheduler ==
    \/ SyncHistory
    \/ EnterLoop
    \/ FetchYande
    \/ YandeItem
    \/ YandeAfter
    \/ YandeDone
    \/ FetchPixiv
    \/ ListArtist
    \/ PixivItem
    \/ PixivMark
    \/ ArtistDone
    \/ PixivFinish
    \/ PushHistory
    \/ ProcSend
    \/ ProcSave
    \/ Sleep

\* one process that is never killed
Running ==
    \/ Scheduler
    \/ ManualSend
    \/ ManualSave
    \/ ManualReply

\* the event loop resumes the scheduler coroutine whenever its awaited call
\* has returned or raised
LiveSpec == Init /\ [][Running]_vars /\ WF_vars(Scheduler)

\* ================================================================ claims
PixivPostIds == {PixivPostId(p) : p \in PixivIds}
HasRow(table, post_id) == \E r \in table : r.id = post_id
\* process_image is still working on this post
InProcess(post_id) == cur.post_id = post_id /\ pc \in {"save", "after"}
\* this step is the scheduler leaving the asset it finished processing
LeavesAsset == pc = "after" /\ pc' \notin {"after", "start"}

\* C1 as stated: in one process the scheduler never sends the same post id
\* to the channel twice, whatever the source.
C1_NoDoubleDelivery == resent = {}

\* C1 amended: in one process the scheduler never sends the same Pixiv post
\* id to the channel twice, even when a later round lists the illust again.
C1_PixivNoDoubleDelivery == resent \cap PixivPostIds = {}

\* a delivered illust is listed again and is next in line
C1_Witness ==
    /\ pc = "pixiv_loop"
    /\ ids # <<>>
    /\ PixivPostId(Head(ids)) \in delivered
    /\ cur = NoAsset

\* C2 as stated: an asset the scheduler sent to the channel is in the set of
\* sent ids (under its post id or its bare id) once its processing is over.
C2_DeliveredIsSeen ==
    \A post \in delivered :
        \/ InProcess(post)
        \/ post \in sent_illust_ids
        \/ \E p \in PixivIds : post = PixivPostId(p) /\ p \in sent_illust_ids
        \/ \E n \in YandeIds : post = YandePostId(n) /\ Str(n) \in sent_illust_ids

\* C2 amended: a Pixiv asset the scheduler sent to the channel has its bare
\* illust id in the set of sent ids once its processing is over.
C2_PixivDeliveredIsSeen ==
    \A p \in PixivIds :
        PixivPostId(p) \in delivered => InProcess(PixivPostId(p)) \/ p \in sent_illust_ids

\* a sent illust, processing over, recorded under its bare id only
C2_Witness ==
    \E p \in PixivIds :
        /\ PixivPostId(p) \in delivered
        /\ cur = NoAsset
        /\ p \in sent_illust_ids
        /\ PixivPostId(p) \notin sent_illust_ids

\* C3 as stated: when the send to the channel failed, finishing the asset
\* adds nothing to the set of sent ids.
C3_FailedSendNotMarked ==
    [][(pc = "after" /\ ~cur.sendOk) => sent_illust_ids' \subseteq sent_illust_ids]_vars

\* C4: after a failed send no write to D1 is attempted for the asset, in
\* process_image and in the manual handler alike.
C4_NoWriteAfterFailedSend ==
    /\ pc = "save" => cur.sendOk
    /\ (pc = "after" /\ ~cur.sendOk) => ~cur.d1Tried
    /\ mpc = "save" => mcur.sendOk

\* process_image is over for an asset whose send failed
C4_Witness ==
    /\ pc = "after"
    /\ cur.source = "pixiv"
    /\ ~cur.sendOk

\* C5 as stated: when the send succeeded and the D1 write failed, the asset
\* is in the set of sent ids once its processing is over and D1 has no row
\* for it, whatever the source.
C5_FailedWriteStillSeen ==
    [][(LeavesAsset /\ cur.sendOk /\ cur.d1Tried /\ ~cur.d1Ok)
          => /\ cur.pid \in sent_illust_ids' \/ cur.post_id \in sent_illust_ids'
             /\ ~HasRow(d1', cur.post_id)]_vars

\* C5 amended: when the send of a Pixiv asset succeeded and the D1 write
\* failed, the bare illust id is in the set of sent ids once processing is
\* over, no Pixiv post is sent twice in one process, and the write is not
\* tried again: the rows of a Pixiv post change only in the one save_to_d1
\* call that follows its send.
C5_PixivFailedWriteStillSeen ==
    [][/\ (LeavesAsset /\ cur.source = "pixiv" /\ cur.sendOk /\ cur.d1Tried /\ ~cur.d1Ok)
             => cur.pid \in sent_illust_ids'
       /\ resent' \cap PixivPostIds = {}
       /\ \A p \in PixivPostIds :
             (HasRow(d1', p) # HasRow(d1, p))
                => (pc = "save" /\ pc' = "after" /\ cur.post_id = p /\ cur.sendOk
                    /\ p \notin resent)]_vars

\* an illust sent in this process whose write failed: it is recorded, a later
\* round has started, and D1 has no row for it
C5_Witness ==
    \E p \in PixivIds :
        /\ PixivPostId(p) \in delivered
        /\ ~InProcess(PixivPostId(p))
        /\ p \in sent_illust_ids
        /\ ~HasRow(d1, PixivPostId(p))
        /\ d1 = {}
        /\ pc = "pixiv_loop"
        /\ ids # <<>>
        /\ Head(ids) = p

\* C6: the table never holds two rows with one id, and no step removes or
\* changes a row: a second write for an id leaves the first row as it is.
C6_OneRowPerId ==
    [][/\ \A r1, r2 \in d1' : r1.id = r2.id => r1 = r2
       /\ d1 \subseteq d1']_vars

\* a post sent twice; its second write was accepted and the row keeps the first file id
C6_Witness ==
    /\ pc = "after"
    /\ cur.post_id \in resent
    /\ cur.d1Ok
    /\ \E r \in d1 : r.id = cur.post_id /\ r.file_name # cur.file_id

\* C7: within one process no step removes an id from the set of sent ids.
C7_SentIdsOnlyGrow ==
    [][pc' # "start" => sent_illust_ids \subseteq sent_illust_ids']_vars

\* an id recorded in an earlier round is still there while a later round sends
C7_Witness ==
    \E p \in PixivIds :
        /\ PixivPostId(p) \in delivered
        /\ p \in sent_illust_ids
        /\ ~added
        /\ pc = "send"

\* C8: after a restart whose sync succeeded, the set equals the set whose
\* upload the Worker last accepted.
C8_RestartRoundTrip ==
    (pc = "synced" /\ loaded = "200" /\ flushed # <<>>) => sent_illust_ids = flushed[1]

\* a set of two ids came back from the Worker
C8_Witness ==
    /\ pc = "synced"
    /\ loaded = "200"
    /\ flushed # <<>>
    /\ Cardinality(flushed[1]) >= 2
    /\ sent_illust_ids = flushed[1]

\* C9: a round calls push_history_to_cloud iff it added an id to the set.
C9_FlushGating ==
    /\ pushed => added
    /\ pc = "sleep" => (pushed <=> added)

\* a round that added an id has uploaded the history
C9_Witness ==
    /\ pc = "sleep"
    /\ added
    /\ pushed

\* C10: the startup sync replaces the set by the ids of the body when the
\* Worker answers 200 with a body, and leaves the set as it was otherwise.
C10_SyncReplacesOrKeeps ==
    [][(pc = "start" /\ pc' = "synced")
          => IF WORKER_URL /\ loaded' = "200" /\ history # <<>>
             THEN sent_illust_ids' = ToSet(Split(history))
             ELSE sent_illust_ids' = sent_illust_ids]_vars

\* the Worker answered another status with a body and the set stayed empty
C10_Witness ==
    /\ pc = "synced"
    /\ loaded = "other"
    /\ history # <<>>
    /\ sent_illust_ids = {}

\* C11: the scheduler loop never stops: whatever fails inside a round, the
\* round reaches its sleep, and every sleep is followed by the next round.
C11_RoundsForever ==
    /\ []<>(pc = "yande")
    /\ []<>(pc = "sleep")

\* every send of the round failed and the Worker refused the upload, and the
\* round still reached its sleep
C11_Witness ==
    /\ pc = "sleep"
    /\ WORKER_URL
    /\ added
    /\ pushed
    /\ flushed = <<>>
    /\ delivered = {}

\* C12: a failure while one asset is handled aborts that asset only: a step
\* of a connector's loop takes at most the asset at the head off the listing,
\* so the candidates behind it are still attempted in this round.
C12_FailureAbortsOneAsset ==
    [][/\ (pc = "pixiv_loop" /\ ids # <<>> /\ pc' # "start")
            => ids' \in {ids, Tail(ids)}
       /\ (pc = "yande_loop" /\ posts # <<>> /\ pc' # "start")
            => posts' \in {posts, Tail(posts)}]_vars

\* a step of handle_manual_forward: the handler moves and the scheduler does
\* not (a kill during the startup sync, which ends the handler, counts as one)
ManualStep == <<mpc, mcur>>' # <<mpc, mcur>> /\ pc' = pc

\* C13: manual intake bypasses the dedup cache: no step of the handler changes
\* the set, raises the round's flag or uploads the history.
C13_ManualBypassesDedup ==
    [][ManualStep => UNCHANGED <<sent_illust_ids, has_new_images, history, pushed, flushed>>]_vars

\* a forwarded photo was sent and written while the set held ids, and its id
\* is not in the set
C13_Witness ==
    /\ mpc = "reply"
    /\ mcur.sendOk
    /\ mcur.d1Ok
    /\ sent_illust_ids # {}
    /\ mcur.post_id \notin sent_illust_ids
    /\ ~pushed

\* C14 as stated: the id of the asset is in the set before its D1 write is
\* attempted.
C14_MarkBeforeWrite ==
    pc = "save" => (cur.pid \in sent_illust_ids \/ cur.post_id \in sent_illust_ids)

\* C14, amended: for a Pixiv illust the order is send, D1 write, mark: the id
\* stays out of the set while process_image runs, and the step that follows
\* its return puts the id into the set and sends nothing to D1.
C14_PixivWriteBeforeMark ==
    [][/\ (cur.source = "pixiv" /\ pc \in {"send", "save"} /\ pc' # "start")
            => (cur.pid \notin sent_illust_ids /\ cur.pid \notin sent_illust_ids')
       /\ (cur.source = "pixiv" /\ pc = "after" /\ pc' = "pixiv_loop")
            => (cur.pid \notin sent_illust_ids /\ cur.pid \in sent_illust_ids' /\ d1' = d1)]_vars

\* the row of a Pixiv illust is in the table and its id is not yet in the set
C14_Witness ==
    /\ pc = "after"
    /\ cur.source = "pixiv"
    /\ cur.d1Ok
    /\ HasRow(d1, cur.post_id)
    /\ cur.pid \notin sent_illust_ids

\* C15 as stated: when the D1 write of an asset is attempted, the asset has
\* been put into the object store.
C15_ObjectStoredBeforeWrite ==
    pc = "save" => cur.post_id \in objects

\* C15, amended: nothing is ever put into an object store; a successful send
\* is followed directly by the D1 write, a failed one by the return of
\* process_image, and after the write, accepted or not, the connector's loop
\* goes on.
C15_SendThenWriteThenNext ==
    [][/\ objects' = {}
       /\ (pc = "send" /\ pc' \notin {"send", "start"})
            => pc' = (IF cur'.sendOk THEN "save" ELSE "after")
       /\ (pc = "save" /\ pc' \notin {"save", "start"})
            => (pc' = "after" /\ cur'.d1Tried)
       /\ (pc = "after" /\ pc' \notin {"after", "start"})
            => pc' \in {"yande_loop", "pixiv_loop"}]_vars

\* D1 refused the row of a sent asset, nothing is in an object store, and the
\* connector is back in its loop with the next candidate
C15_Witness ==
    /\ pc = "pixiv_loop"
    /\ ids # <<>>
    /\ delivered \cap PixivPostIds # {}
    /\ d1 = {}
    /\ objects = {}

\* C16: the scheduler's deliveries are sequential: the asset in process_image
\* belongs to the one connector that is running, fetch_pixiv starts only out
\* of fetch_yande, the sleep only out of fetch_pixiv, a round only out of the
\* sleep (or the startup sync), and no step of the manual handler moves the
\* scheduler or touches its asset.
C16_SequentialRounds ==
    [][/\ ~(posts # <<>> /\ ids # <<>>)
       /\ pc \in {"send", "save", "after"}
            => (IF cur.source = "yande" THEN posts # <<>> ELSE cur.source = "pixiv" /\ ids # <<>>)
       /\ (pc' = "yande" /\ pc # "yande") => pc \in {"synced", "sleep"}
       /\ (pc' = "pixiv" /\ pc # "pixiv") => pc \in {"yande", "yande_loop"}
       /\ (pc' = "artist" /\ pc # "artist") => pc \in {"pixiv", "pixiv_loop"}
       /\ (pc' = "push" /\ pc # "push") => pc = "artist"
       /\ (pc' = "sleep" /\ pc # "sleep") => pc \in {"pixiv", "artist", "push"}
       /\ ManualStep => UNCHANGED <<pc, cur, posts, ids, uidsLeft>>]_vars

\* in a later round a Pixiv illust is being sent while the manual handler is
\* between its send and its write
C16_Witness ==
    /\ pc = "send"
    /\ cur.source = "pixiv"
    /\ mpc = "save"
    /\ resent # {}

\* C17: a process calls sync_history_from_cloud exactly once, before its
\* first connector runs, and never again in a later round.
C17_LoadOnce ==
    /\ pc = "start" => loads = 0
    /\ pc # "start" => loads = 1

\* a later round of the same process is starting and the sync has run once
C17_Witness ==
    /\ pc = "yande"
    /\ resent # {}
    /\ loads = 1

\* a step of the scheduler coroutine inside the loop over one artist's ids
PixivLoopStep == pc = "pixiv_loop" /\ pc' # "start" /\ <<pc, ids, cur>>' # <<pc, ids, cur>>

\* C18: a Pixiv id that is in the set when the loop reaches it is skipped:
\* the loop goes to the next id with nothing downloaded, sent or written, and
\* the set, the round's flag and the Worker's history stay as they are.
C18_SeenIsSkipped ==
    [][(PixivLoopStep /\ ids # <<>> /\ Head(ids) \in sent_illust_ids)
          => /\ ids' = Tail(ids)
             /\ pc' = "pixiv_loop"
             /\ cur' = NoAsset
             /\ UNCHANGED <<d1, delivered, sent_illust_ids, has_new_images, added,
                            history, pushed, flushed>>]_vars

\* the loop has recorded an id in this round and now stands at an id that an
\* earlier round recorded
C18_Witness ==
    /\ pc = "pixiv_loop"
    /\ ids # <<>>
    /\ Head(ids) \in sent_illust_ids
    /\ added
    /\ has_new_images

\* the ids held by the Worker's history text
StoredIds(text) == IF text = <<>> THEN {} ELSE ToSet(Split(text))

\* C19: the remote store never loses an id: whatever the Worker holds before
\* a step, it still holds after it.
C19_RemoteNeverLoses ==
    [][StoredIds(history) \subseteq StoredIds(history')]_vars

\* C20: a success confirmation (the completed log of process_image, the
\* success reply of the manual handler) is issued only for an asset that was
\* sent and whose row D1 accepted.
C20_ConfirmedOnlyIfStored ==
    /\ (pc = "after" /\ cur.confirmed) => (cur.sendOk /\ cur.d1Ok)
    /\ (mpc = "reply" /\ mcur.confirmed) => (mcur.sendOk /\ mcur.d1Ok)

====
